---- MODULE Spec2Model ----
(***************************************************************************)
(* A model of the Eme Studios scraper (src/scraper.py, src/config.py).     *)
(*                                                                         *)
(* Text is modelled as a sequence of one-character strings, so that the    *)
(* substring tests, strips, splits and replacements of the code are        *)
(* computed character by character.  An optional value (Python's None) is  *)
(* the record None; a present value v is Some(v).                          *)
(***************************************************************************)
EXTENDS Integers, Sequences, FiniteSets, TLC

VARIABLES
    pc,          \* control position of the operation being modelled
    arg,         \* argument of the pure function under call
    ret,         \* its return value (meaningful once pc = "return")
    ret2,        \* the function applied again to its own result (image URLs)
    \* collect_product_urls_from_category
    max_urls,    \* the caller's URL budget: None or Some(n)
    seen,        \* the discovered set of normalized product URLs
    attempt,     \* the scroll loop's counter
    prev_count,  \* len(seen) taken after the first scroll of an iteration
    after_links, \* the number of anchors counted after that scroll
    found,       \* the URLs returned (a list built from a set: no order, no duplicate)
    quiet,       \* history: scrolls done since the discovered set last grew
    scrolls,     \* history: scrolls done in the current iteration of the loop
    exit,        \* history: how the loop was left
    \* run_scraper
    all_urls,    \* the product URLs the first pass collected
    idx,         \* how many of them the product pass has dealt with
    products,    \* the records appended so far
    visited,     \* history: the page each visit met and how the scrape ended
    \* collect_all_product_urls
    cat,         \* how many category pages have been dealt with
    acc,         \* its own set of URLs, gathered over the categories
    page_open,   \* "none" before new_page, then "open", then "closed"
    cat_visits,  \* history: len(acc) at the start of each category visit
    cexit,       \* history: "returned" or "raised" once the collection is over
    \* main
    env,         \* the environment values of SUPABASE_URL and SUPABASE_KEY
    skip_embeddings,
    image_embeddings,
    info_embeddings,
    calls,       \* history: the calls made to the persistence layer
    outcome      \* history: "returned" or "raised" once main is over

pureVars == <<arg, ret, ret2>>
scrollVars ==
    <<max_urls, seen, attempt, prev_count, after_links, found, quiet, scrolls, exit>>
runVars == <<all_urls, idx, products, visited>>
collectVars == <<cat, acc, page_open, cat_visits, cexit>>
mainVars == <<env, skip_embeddings, image_embeddings, info_embeddings, calls, outcome>>
vars == <<pc, pureVars, scrollVars, runVars, collectVars, mainVars>>

\* the parts of the state an operation does not use, at rest
IdlePure == arg = <<>> /\ ret = <<>> /\ ret2 = <<>>
IdleScroll ==
    /\ max_urls = [some |-> FALSE] /\ seen = {} /\ attempt = 0 /\ prev_count = 0
    /\ after_links = 0 /\ found = {} /\ quiet = 0 /\ scrolls = 0 /\ exit = ""
IdleRun == all_urls = <<>> /\ idx = 0 /\ products = <<>> /\ visited = <<>>
IdleCollect ==
    cat = 0 /\ acc = {} /\ page_open = "none" /\ cat_visits = <<>> /\ cexit = ""
IdleMain ==
    /\ env = <<>> /\ skip_embeddings = FALSE /\ image_embeddings = <<>>
    /\ info_embeddings = <<>> /\ calls = <<>> /\ outcome = ""

----------------------------------------------------------------------------
(* Optional values *)

None == [some |-> FALSE]
Some(v) == [some |-> TRUE, val |-> v]

\* Python's  (x or "")  on an optional string
OrEmpty(o) == IF o.some THEN o.val ELSE <<>>

----------------------------------------------------------------------------
(* Python string operations on character sequences *)

Whitespace == {" ", "\t", "\n", "\r", "\f"}
Digits == {"0", "1", "2", "3", "4", "5", "6", "7", "8", "9"}
UpperCase == <<"A", "B", "C", "D", "E", "F", "G", "H", "I", "J", "K", "L", "M",
               "N", "O", "P", "Q", "R", "S", "T", "U", "V", "W", "X", "Y", "Z">>
LowerCase == <<"a", "b", "c", "d", "e", "f", "g", "h", "i", "j", "k", "l", "m",
               "n", "o", "p", "q", "r", "s", "t", "u", "v", "w", "x", "y", "z">>

\* s.startswith(p)
StartsWith(s, p) == Len(s) >= Len(p) /\ SubSeq(s, 1, Len(p)) = p

\* the places (1-based) where p occurs in s
Occurrences(s, p) == {i \in 1..(Len(s) - Len(p) + 1) : SubSeq(s, i, i + Len(p) - 1) = p}

\* s.index(p) + 1, or 0 when p does not occur in s
Find(s, p) ==
    IF Occurrences(s, p) = {} THEN 0
    ELSE CHOOSE i \in Occurrences(s, p) : \A j \in Occurrences(s, p) : i <= j

\* p in s
Contains(s, p) == Occurrences(s, p) # {}

\* s[i-1:]  for a 1-based place i
From(s, i) == SubSeq(s, i, Len(s))

\* s.lstrip(chars) and s.rstrip(chars) for a set of characters
RECURSIVE LStrip(_, _)
LStrip(s, cs) == IF s # <<>> /\ Head(s) \in cs THEN LStrip(Tail(s), cs) ELSE s

RECURSIVE RStrip(_, _)
RStrip(s, cs) ==
    IF s # <<>> /\ s[Len(s)] \in cs THEN RStrip(SubSeq(s, 1, Len(s) - 1), cs) ELSE s

\* s.strip()
Strip(s) == RStrip(LStrip(s, Whitespace), Whitespace)

\* s.split(c)[0]
SplitFirst(s, c) ==
    IF Find(s, <<c>>) = 0 THEN s ELSE SubSeq(s, 1, Find(s, <<c>>) - 1)

\* s.lower() / s.upper()
LowerChar(c) ==
    IF \E i \in 1..26 : UpperCase[i] = c
    THEN LowerCase[CHOOSE i \in 1..26 : UpperCase[i] = c] ELSE c
UpperChar(c) ==
    IF \E i \in 1..26 : LowerCase[i] = c
    THEN UpperCase[CHOOSE i \in 1..26 : LowerCase[i] = c] ELSE c
Lower(s) == [i \in 1..Len(s) |-> LowerChar(s[i])]
Upper(s) == [i \in 1..Len(s) |-> UpperChar(s[i])]

\* s.replace(old, new): every non-overlapping occurrence, left to right
RECURSIVE Replace(_, _, _)
Replace(s, old, new) ==
    IF Find(s, old) = 0 THEN s
    ELSE SubSeq(s, 1, Find(s, old) - 1) \o new
         \o Replace(From(s, Find(s, old) + Len(old)), old, new)

\* sep.join(parts)
RECURSIVE Join(_, _)
Join(parts, sep) ==
    IF parts = <<>> THEN <<>>
    ELSE IF Len(parts) = 1 THEN parts[1]
    ELSE parts[1] \o sep \o Join(Tail(parts), sep)

\* re.sub(r"[^...]", "", s): keep the characters of the set cs
RECURSIVE Keep(_, _)
Keep(s, cs) ==
    IF s = <<>> THEN <<>>
    ELSE (IF Head(s) \in cs THEN <<Head(s)>> ELSE <<>>) \o Keep(Tail(s), cs)

----------------------------------------------------------------------------
(* Gender inference: _infer_gender *)

MenWords == << <<"m", "e", "n">>, <<"m", "a", "n">>, <<"m", "a", "l", "e">>,
               <<"m", "e", "n", "s">>, <<"m", "e", "n", "'", "s">> >>
WomenWords == << <<"w", "o", "m", "e", "n">>, <<"w", "o", "m", "a", "n">>,
                 <<"f", "e", "m", "a", "l", "e">>, <<"w", "o", "m", "e", "n", "s">>,
                 <<"w", "o", "m", "e", "n", "'", "s">>,
                 <<"l", "a", "d", "i", "e", "s">> >>

\* any(w in text for w in words)
AnyIn(words, text) == \E i \in 1..Len(words) : Contains(text, words[i])

\* the text the keywords are looked up in
GenderText(data) ==
    Join(<< Lower(OrEmpty(data.category)),
            Lower(OrEmpty(data.metadata.tags)),
            Lower(OrEmpty(data.metadata.handle)),
            Lower(OrEmpty(data.metadata.collections)),
            Lower(OrEmpty(data.metadata.vendor)) >>, <<" ">>)

_infer_gender(data) ==
    IF AnyIn(MenWords, GenderText(data)) THEN Some("man")
    ELSE IF AnyIn(WomenWords, GenderText(data)) THEN Some("woman")
    ELSE None

GenderCategories ==
    { None, Some(<<"W", "o", "m", "e", "n", "'", "s">>), Some(<<"M", "e", "n", "'", "s">>),
      Some(<<"L", "a", "d", "i", "e", "s">>), Some(<<"H", "a", "t", "s">>) }
GenderTags ==
    { None, Some(<<"w", "o", "m", "e", "n", "'", "s", ",", " ", "t", "o", "p", "s">>),
      Some(<<"u", "n", "i", "s", "e", "x">>), Some(<<"m", "e", "n", "'", "s">>) }
GenderHandles ==
    { None, Some(<<"l", "a", "d", "i", "e", "s", "-", "t", "e", "e">>),
      Some(<<"c", "a", "p">>) }
GenderCollections == { None, Some(<<"F", "e", "m", "a", "l", "e">>), Some(<<"N", "e", "w">>) }
GenderVendors == { None, Some(<<"E", "m", "e">>) }

GenderInputs ==
    { [category |-> c,
       metadata |-> [tags |-> t, handle |-> h, collections |-> k, vendor |-> v]] :
      c \in GenderCategories, t \in GenderTags, h \in GenderHandles,
      k \in GenderCollections, v \in GenderVendors }

InitGender == pc = "call" /\ arg \in GenderInputs /\ ret = None /\ ret2 = None
              /\ IdleScroll
              /\ IdleRun
              /\ IdleCollect
              /\ IdleMain

CallInferGender ==
    /\ pc = "call"
    /\ ret' = _infer_gender(arg)
    /\ pc' = "return"
    /\ UNCHANGED <<arg, ret2, scrollVars, runVars, collectVars, mainVars>>

SpecGender == InitGender /\ [][CallInferGender]_vars

\* C1: _infer_gender returns "woman" whenever the combined text contains
\* "women's", "man" when it contains "men's" and no women keyword, and nothing
\* when it contains no keyword of either set.
C1_GenderAsClaimed ==
    pc = "return" =>
        /\ Contains(GenderText(arg), WomenWords[5]) => ret = Some("woman")
        /\ (Contains(GenderText(arg), MenWords[5]) /\ ~AnyIn(WomenWords, GenderText(arg)))
              => ret = Some("man")
        /\ (~AnyIn(MenWords, GenderText(arg)) /\ ~AnyIn(WomenWords, GenderText(arg)))
              => ret = None

----------------------------------------------------------------------------
(* Image URL normalisation: _normalize_image_url *)

BASE_URL == <<"h", "t", "t", "p", "s", ":", "/", "/",
              "e", "m", "e", "s", "t", "u", "d", "i", "o", "s", ".", "c", "o", "m">>
HttpPrefix == <<"h", "t", "t", "p", ":", "/", "/">>
HttpsPrefix == <<"h", "t", "t", "p", "s", ":", "/", "/">>
CdnFiles == <<"c", "d", "n", "/", "s", "h", "o", "p", "/", "f", "i", "l", "e", "s", "/">>
SiteHost == <<"e", "m", "e", "s", "t", "u", "d", "i", "o", "s", ".", "c", "o", "m">>

\* BASE_URL.rstrip("/")
BaseNoSlash == RStrip(BASE_URL, {"/"})

\* the branches of _normalize_image_url on the stripped, query-free text u
NormalizeImageText(u) ==
    IF StartsWith(u, HttpPrefix) \/ StartsWith(u, HttpsPrefix) THEN u
    ELSE IF StartsWith(u, <<"/", "/">>) THEN <<"h", "t", "t", "p", "s", ":">> \o u
    ELSE IF StartsWith(u, <<"/">>) THEN BaseNoSlash \o u
    ELSE IF Contains(u, CdnFiles) THEN BaseNoSlash \o <<"/">> \o From(u, Find(u, CdnFiles))
    ELSE IF Contains(u, SiteHost)
         THEN BaseNoSlash \o <<"/">> \o LStrip(From(u, Find(u, SiteHost) + 14), {"/"})
    ELSE BaseNoSlash \o <<"/">> \o LStrip(u, {"/"})

\* url is an optional text; the result is an optional text
_normalize_image_url(url) ==
    IF ~url.some \/ url.val = <<>> THEN None
    ELSE Some(NormalizeImageText(SplitFirst(Strip(url.val), "?")))

ImageLeads == { <<>>, <<" ">> }
ImageOrigins ==
    { <<>>, BASE_URL, HttpPrefix \o SiteHost, <<"/", "/">> \o SiteHost,
      SiteHost \o <<"/", "/">> \o SiteHost, SiteHost }
ImagePaths ==
    { <<>>, <<"/">>, <<"/">> \o CdnFiles \o <<"a", ".", "w", "e", "b", "p">>,
      CdnFiles \o <<"a", ".", "w", "e", "b", "p">>,
      <<"/", "i", "m", "g", "/", "a", " ", "b", ".", "j", "p", "g">>,
      <<"i", "m", "g", ".", "p", "n", "g">> }
ImageTails ==
    { <<>>, <<"?", "v", "=", "1">>, <<" ", "?", "v", "=", "1">>, <<" ">>,
      <<"?", "a", "?", "b">> }

ImageInputs ==
    {None} \cup { Some(l \o o \o p \o t) :
                  l \in ImageLeads, o \in ImageOrigins, p \in ImagePaths, t \in ImageTails }

InitImage == pc = "call" /\ arg \in ImageInputs /\ ret = None /\ ret2 = None
              /\ IdleScroll
              /\ IdleRun
              /\ IdleCollect
              /\ IdleMain

CallNormalizeImage ==
    /\ pc = "call"
    /\ ret' = _normalize_image_url(arg)
    /\ pc' = "return"
    /\ UNCHANGED <<arg, ret2, scrollVars, runVars, collectVars, mainVars>>

\* the function applied to its own result
CallNormalizeImageAgain ==
    /\ pc = "return"
    /\ ret2' = _normalize_image_url(ret)
    /\ pc' = "again"
    /\ UNCHANGED <<arg, ret, scrollVars, runVars, collectVars, mainVars>>

NextImage == CallNormalizeImage \/ CallNormalizeImageAgain

SpecImage == InitImage /\ [][NextImage]_vars

\* C2: _normalize_image_url is idempotent: whenever it returns a URL for x,
\* applying it to that URL returns the same URL.
C2_ImageIdempotent ==
    (pc = "again" /\ ret.some) => ret2 = ret

----------------------------------------------------------------------------
(* Product URL normalisation: _normalize_product_url *)

ProductsMarker == <<"/", "p", "r", "o", "d", "u", "c", "t", "s", "/">>
JavascriptScheme == <<"j", "a", "v", "a", "s", "c", "r", "i", "p", "t", ":">>
LocaleAt == <<"/", "e", "n", "-", "a", "t", "/">>
LocaleUs == <<"/", "e", "n", "-", "u", "s", "/">>
LocaleGb == <<"/", "e", "n", "-", "g", "b", "/">>
LocaleAny == <<"/", "e", "n", "-">>

\* urllib: the characters a scheme is made of
SchemeChars ==
    {LowerCase[i] : i \in 1..26} \cup {UpperCase[i] : i \in 1..26} \cup Digits
        \cup {"+", "-", "."}

\* urlsplit's scheme of a reference: the text before its first ":" when that text
\* starts with a letter and holds scheme characters only; <<>> when it has none
SchemeOf(url) ==
    LET i == Find(url, <<":">>) IN
    IF /\ i > 1
       /\ LowerChar(url[1]) \in {LowerCase[k] : k \in 1..26}
       /\ \A j \in 1..(i - 1) : url[j] \in SchemeChars
    THEN Lower(SubSeq(url, 1, i - 1))
    ELSE <<>>

\* urljoin(base, href) for a base with an empty path (BASE_URL) and a reference
\* without dot segments: a reference with a scheme is returned as it is, a
\* network-path reference takes the base's scheme, an absolute path or a query
\* is put after the base's origin, a relative path after the origin and "/"
urljoin(base, href) ==
    IF href = <<>> THEN base
    ELSE IF SchemeOf(href) # <<>> THEN href
    ELSE IF StartsWith(href, <<"/", "/">>) THEN SchemeOf(base) \o <<":">> \o href
    ELSE IF Head(href) \in {"/", "?", "#"} THEN base \o href
    ELSE base \o <<"/">> \o href

\* lines 45-46: the locale rewrite of the joined URL
PreferEnAt(url) ==
    IF ~Contains(url, LocaleAt) /\ Contains(url, LocaleAny)
    THEN Replace(Replace(url, LocaleUs, LocaleAt), LocaleGb, LocaleAt)
    ELSE url

\* the product-path test left out: every resolved link is returned
NormalizeProductUrlNoMarkerTest(href) ==
    IF href = <<>> \/ StartsWith(href, <<"#">>) \/ Contains(href, JavascriptScheme)
    THEN <<>>
    ELSE SplitFirst(PreferEnAt(urljoin(BASE_URL, href)), "?")

\* the result is a text; "" is <<>>
_normalize_product_url(href) ==
    IF href = <<>> \/ StartsWith(href, <<"#">>) \/ Contains(href, JavascriptScheme)
    THEN <<>>
    ELSE LET url == PreferEnAt(urljoin(BASE_URL, href)) IN
         IF ~Contains(url, ProductsMarker) THEN <<>>
         ELSE SplitFirst(url, "?")

HrefOrigins ==
    { <<>>, BASE_URL, HttpPrefix \o SiteHost, <<"/", "/">> \o SiteHost }
HrefLocales ==
    { <<>>, <<"/", "e", "n", "-", "a", "t">>, <<"/", "e", "n", "-", "u", "s">>,
      <<"/", "e", "n", "-", "g", "b">>, <<"/", "e", "n", "-", "d", "e">> }
HrefPaths ==
    { <<>>, <<"/", "p", "r", "o", "d", "u", "c", "t", "s", "/", "x">>,
      <<"/", "c", "o", "l", "l", "e", "c", "t", "i", "o", "n", "s", "/", "a">>,
      <<"/", "p", "r", "o", "d", "u", "c", "t", "s">> }
HrefRelativePaths ==
    { <<"p", "r", "o", "d", "u", "c", "t", "s", "/", "x">>,
      <<"c", "o", "l", "l", "e", "c", "t", "i", "o", "n", "s", "/", "a">> }
HrefQueries ==
    { <<>>, <<"?", "v", "a", "r", "i", "a", "n", "t", "=", "1">>,
      <<"?", "n", "e", "x", "t", "=", "/", "p", "r", "o", "d", "u", "c", "t", "s", "/", "y">>,
      <<"?", "a", "=", "/", "e", "n", "-", "u", "s", "/">> }
HrefSpecials ==
    { <<"#", "t", "o", "p">>, <<"#">> \o ProductsMarker,
      JavascriptScheme \o <<"v", "o", "i", "d", "(", "0", ")">>,
      JavascriptScheme \o ProductsMarker,
      <<"m", "a", "i", "l", "t", "o", ":", "a", "@", "b", ".", "c">> }

HrefInputs ==
    { o \o l \o p \o q : o \in HrefOrigins, l \in HrefLocales, p \in HrefPaths,
                         q \in HrefQueries }
    \cup { p \o q : p \in HrefRelativePaths, q \in HrefQueries }
    \cup HrefSpecials

InitProductUrl == pc = "call" /\ arg \in HrefInputs /\ ret = <<>> /\ ret2 = None
                  /\ IdleScroll
                  /\ IdleRun
                  /\ IdleCollect
                  /\ IdleMain

CallNormalizeProductUrl ==
    /\ pc = "call"
    /\ ret' = _normalize_product_url(arg)
    /\ pc' = "return"
    /\ UNCHANGED <<arg, ret2, scrollVars, runVars, collectVars, mainVars>>

SpecProductUrl == InitProductUrl /\ [][CallNormalizeProductUrl]_vars

\* C3 as stated: every href that does not itself contain "/products/" (relative
\* hrefs such as "products/x" included) is answered with the empty string.
C3_HrefWithoutMarkerRejected ==
    (pc = "return" /\ ~Contains(arg, ProductsMarker)) => ret = <<>>

\* C3: every href whose URL resolved against BASE_URL does not contain
\* "/products/" is answered with the empty string.
C3_ResolvedWithoutMarkerRejected ==
    (pc = "return" /\ ~Contains(urljoin(BASE_URL, arg), ProductsMarker)) => ret = <<>>

\* a link that resolves (not a fragment, not a script link) to a URL without the
\* marker has been answered
C3_Witness ==
    /\ pc = "return"
    /\ arg # <<>> /\ ~StartsWith(arg, <<"#">>) /\ ~Contains(arg, JavascriptScheme)
    /\ ~Contains(urljoin(BASE_URL, arg), ProductsMarker)
    /\ ret = <<>>

\* C4: every non-empty result is an absolute URL, holds no query string and
\* still contains "/products/".
C4_ResultIsProductUrl ==
    (pc = "return" /\ ret # <<>>) =>
        /\ SchemeOf(ret) # <<>>
        /\ ~Contains(ret, <<"?">>)
        /\ Contains(ret, ProductsMarker)

----------------------------------------------------------------------------
(* Pagination: collect_product_urls_from_category *)

\* the attempt ceiling, scaled down from the 50 of src/config.py:27 so that a
\* page of a few products can reach it
MAX_SCROLL_ATTEMPTS == 4
\* the largest number of anchors one count of the page reports
MaxAnchors == 4
\* the largest URL budget a caller passes
MaxBudget == 2

\* a.href of the anchors the selector a[href*="/products/"] matches
AnchorHrefs ==
    { BASE_URL \o <<"/", "e", "n", "-", "a", "t">> \o ProductsMarker \o <<"a">>,
      BASE_URL \o <<"/", "e", "n", "-", "u", "s">> \o ProductsMarker \o <<"a">>,
      BASE_URL \o ProductsMarker \o <<"b", "?", "v", "=", "1">>,
      BASE_URL \o ProductsMarker \o <<"c">>,
      BASE_URL \o <<"/", "c", "?", "n", "=">> \o ProductsMarker \o <<"d">>,
      JavascriptScheme \o <<"g", "o", "(", "'">> \o ProductsMarker \o <<"a", "'", ")">> }

\* the normalized URL of each anchor
NormalizedHref == [h \in AnchorHrefs |-> _normalize_product_url(h)]

\* lines 75-78 and 100-103: the URLs a list of links adds to the discovered set
UrlsOf(links) == {NormalizedHref[h] : h \in links} \ {<<>>}

Budgets == {None} \cup {Some(n) : n \in 0..MaxBudget}

\* line 79
BudgetReached(s) == max_urls.some /\ Cardinality(s) >= max_urls.val

InitScroll ==
    /\ pc = "read"
    /\ max_urls \in Budgets
    /\ seen = {} /\ attempt = 0 /\ prev_count = 0 /\ after_links = 0
    /\ found = {} /\ quiet = 0 /\ scrolls = 0 /\ exit = ""
    /\ IdlePure
    /\ IdleRun
    /\ IdleCollect
    /\ IdleMain

\* lines 71-80: read the anchors, add their URLs, return when the budget is met
ReadLinks ==
    /\ pc = "read"
    /\ \E links \in SUBSET AnchorHrefs :
         LET s == seen \cup UrlsOf(links) IN
         /\ seen' = s
         /\ quiet' = IF s # seen THEN 0 ELSE quiet
         /\ scrolls' = 0
         /\ IF BudgetReached(s)
            THEN /\ \E r \in SUBSET s :
                      /\ Cardinality(r) = max_urls.val
                      /\ found' = r
                 /\ exit' = "budget"
                 /\ pc' = "done"
            ELSE /\ pc' = "count"
                 /\ UNCHANGED <<found, exit>>
    /\ UNCHANGED <<max_urls, attempt, prev_count, after_links, pureVars, runVars, collectVars, mainVars>>

\* lines 83-92: scroll, count the anchors, take len(seen)
ScrollAndCount ==
    /\ pc = "count"
    /\ \E n \in 0..MaxAnchors :
         /\ after_links' = n
         /\ prev_count' = Cardinality(seen)
         /\ pc' = IF n # 0 /\ n <= Cardinality(seen) THEN "lookahead" ELSE "tail"
    /\ quiet' = quiet + 1
    /\ scrolls' = scrolls + 1
    /\ UNCHANGED <<max_urls, seen, attempt, found, exit, pureVars, runVars, collectVars, mainVars>>

\* lines 93-105: one more scroll, read the anchors again, leave when nothing is new
Lookahead ==
    /\ pc = "lookahead"
    /\ \E links2 \in SUBSET AnchorHrefs :
         LET s == seen \cup UrlsOf(links2) IN
         /\ seen' = s
         /\ quiet' = IF s # seen THEN 0 ELSE quiet + 1
         /\ scrolls' = scrolls + 1
         /\ IF Cardinality(s) <= prev_count
            THEN /\ found' = s
                 /\ exit' = "nothing new"
                 /\ pc' = "done"
            ELSE /\ pc' = "tail"
                 /\ UNCHANGED <<found, exit>>
    /\ UNCHANGED <<max_urls, attempt, prev_count, after_links, pureVars, runVars, collectVars, mainVars>>

\* a loop without a ceiling
NeverLastAttempt(a) == FALSE

\* line 69: range(MAX_SCROLL_ATTEMPTS) has no value after a
LastAttempt(a) == a + 1 >= MAX_SCROLL_ATTEMPTS

\* lines 106-109 and the for statement: leave, or go to the next attempt
LoopTail ==
    /\ pc = "tail"
    /\ IF attempt >= 2 /\ Cardinality(seen) = prev_count
       THEN /\ found' = seen
            /\ exit' = "same count"
            /\ pc' = "done"
            /\ UNCHANGED attempt
       ELSE IF LastAttempt(attempt)
       THEN /\ found' = seen
            /\ exit' = "ceiling"
            /\ pc' = "done"
            /\ attempt' = attempt + 1
       ELSE /\ attempt' = attempt + 1
            /\ pc' = "read"
            /\ UNCHANGED <<found, exit>>
    /\ UNCHANGED <<max_urls, seen, prev_count, after_links, quiet, scrolls, pureVars, runVars, collectVars, mainVars>>

NextScroll == ReadLinks \/ ScrollAndCount \/ Lookahead \/ LoopTail

SpecScroll == InitScroll /\ [][NextScroll]_vars

\* each call of the page returns, so the function keeps taking steps
SpecScrollFair == SpecScroll /\ WF_vars(NextScroll)

\* C5: the scroll loop is left early (before the ceiling, the budget not met) only
\* after two consecutive scrolls that each added no new URL to the discovered
\* set: a single scroll without new links, or an iteration in which new links
\* appeared, does not end it.
C5_BreakOnlyAfterTwoQuietScrolls ==
    (pc = "done" /\ exit \in {"nothing new", "same count"}) => quiet >= 2

----------------------------------------------------------------------------
(* Prices: _normalize_amount and _build_price_and_sale *)

\* An amount (a Python float) is kept as a whole number of thousandths, which
\* holds every amount written with at most three decimals exactly.
Scale == 1000

\* the euro sign, one character of the text
EuroSign == "euro"

DigitSeq == <<"0", "1", "2", "3", "4", "5", "6", "7", "8", "9">>
DigitChar(d) == DigitSeq[d + 1]
DigitValue(c) == CHOOSE d \in 0..9 : DigitSeq[d + 1] = c

\* int(digits) for a text of digits ("" is 0)
RECURSIVE IntOf(_)
IntOf(ds) ==
    IF ds = <<>> THEN 0
    ELSE 10 * IntOf(SubSeq(ds, 1, Len(ds) - 1)) + DigitValue(ds[Len(ds)])

\* str(n) for n >= 0
RECURSIVE IntToText(_)
IntToText(n) ==
    IF n < 10 THEN <<DigitChar(n)>> ELSE IntToText(n \div 10) \o <<DigitChar(n % 10)>>

AllDigits(ds) == \A i \in 1..Len(ds) : ds[i] \in Digits

\* re.match(r"^\d+\.?\d*$", num)
MatchesAmount(num) ==
    LET dot == Find(num, <<".">>) IN
    IF dot = 0 THEN num # <<>> /\ AllDigits(num)
    ELSE dot > 1 /\ AllDigits(SubSeq(num, 1, dot - 1)) /\ AllDigits(From(num, dot + 1))

\* float(num) in thousandths, for num of the form digits[.digits] with at most
\* three decimals
FloatOf(num) ==
    LET dot == Find(num, <<".">>) IN
    IF dot = 0 THEN Scale * IntOf(num)
    ELSE Scale * IntOf(SubSeq(num, 1, dot - 1))
         + IntOf(SubSeq(From(num, dot + 1) \o <<"0", "0", "0">>, 1, 3))

\* the amount never taken as cents
NormalizeAmountFaceValue(amount_str) ==
    IF amount_str = <<>> THEN None
    ELSE LET num == Replace(Keep(amount_str, Digits \cup {".", ","}), <<",">>, <<".">>) IN
         IF ~MatchesAmount(num) THEN None ELSE Some(FloatOf(num))

\* the result is None or Some(amount in thousandths)
_normalize_amount(amount_str) ==
    IF amount_str = <<>> THEN None
    ELSE LET num == Replace(Keep(amount_str, Digits \cup {".", ","}), <<",">>, <<".">>) IN
         IF ~MatchesAmount(num) THEN None
         ELSE LET val == FloatOf(num) IN
              IF val >= 100 * Scale /\ ~Contains(num, <<".">>) /\ val % Scale = 0
              THEN Some(val \div 100)
              ELSE Some(val)

\* f"{val:.2f}": rounded to hundredths (no amount drawn lies halfway), then
\* .rstrip("0").rstrip(".")
FormatAmount(val) ==
    LET cents == (val + 5) \div 10
        fixed == IntToText(cents \div 100) \o <<".">>
                 \o <<DigitChar((cents % 100) \div 10), DigitChar(cents % 10)>>
    IN  RStrip(RStrip(fixed, {"0"}), {"."})

\* the currency words of the pattern on line 324, in its order
CurrencyWords ==
    << <<"$">>, <<EuroSign>>, <<"U", "S", "D">>, <<"E", "U", "R">>,
       <<"C", "Z", "K">>, <<"P", "L", "N">> >>
USD == <<"U", "S", "D">>
EUR == <<"E", "U", "R">>

AmountChars == Digits \cup {".", ","}

\* re.search(r"([\d.,]+)\s*(\$|...|PLN)?", text): None, or the first longest run
\* of amount characters (group 1) and the currency word that follows it after
\* optional whitespace (group 2, None when there is none)
SearchAmount(text) ==
    LET starts == {i \in 1..Len(text) : text[i] \in AmountChars} IN
    IF starts = {} THEN None
    ELSE LET first == CHOOSE i \in starts : \A j \in starts : i <= j
             stops == {i \in first..Len(text) : text[i] \notin AmountChars}
             last == IF stops = {} THEN Len(text)
                     ELSE (CHOOSE i \in stops : \A j \in stops : i <= j) - 1
             rest == LStrip(From(text, last + 1), Whitespace)
             words == {k \in 1..Len(CurrencyWords) : StartsWith(rest, CurrencyWords[k])}
         IN  Some([group1 |-> SubSeq(text, first, last),
                   group2 |-> IF words = {} THEN None
                              ELSE Some(CurrencyWords[CHOOSE k \in words :
                                                        \A j \in words : k <= j])])

\* x or y or "" on optional texts (None and "" are both false)
FirstTruthy(x, y) ==
    IF OrEmpty(x) # <<>> THEN x.val ELSE OrEmpty(y)

\* lines 317-318
PriceRaw(data) == Strip(FirstTruthy(data.price, data.metadata.priceRaw))
CompareRaw(data) == Strip(OrEmpty(data.compareAtPrice))

\* lines 320-326: the resolved price, None when nothing parses
PriceVal(data) ==
    IF _normalize_amount(PriceRaw(data)).some THEN _normalize_amount(PriceRaw(data))
    ELSE IF PriceRaw(data) # <<>> /\ SearchAmount(PriceRaw(data)).some
    THEN _normalize_amount(SearchAmount(PriceRaw(data)).val.group1)
    ELSE None

\* line 321
CompareVal(data) ==
    IF CompareRaw(data) # <<>> THEN _normalize_amount(CompareRaw(data)) ELSE None

\* lines 316 and 327-328
Currency(data) ==
    IF /\ ~_normalize_amount(PriceRaw(data)).some
       /\ PriceRaw(data) # <<>>
       /\ SearchAmount(PriceRaw(data)).some
       /\ SearchAmount(PriceRaw(data)).val.group2.some
    THEN Upper(Replace(Replace(SearchAmount(PriceRaw(data)).val.group2.val,
                               <<"$">>, USD), <<EuroSign>>, EUR))
    ELSE Upper(IF OrEmpty(data.metadata.priceCurrency) # <<>>
               THEN data.metadata.priceCurrency.val ELSE USD)

\* a sale also recorded when the compare-at amount equals the price
BuildPriceAndSaleNotStrict(data) ==
    IF ~PriceVal(data).some THEN [price |-> <<>>, sale |-> None]
    ELSE IF CompareVal(data).some /\ CompareVal(data).val >= PriceVal(data).val
    THEN [price |-> FormatAmount(CompareVal(data).val) \o Currency(data),
          sale |-> Some(FormatAmount(PriceVal(data).val) \o Currency(data))]
    ELSE [price |-> FormatAmount(PriceVal(data).val) \o Currency(data), sale |-> None]

\* the result (price_str, sale_str) as a record
_build_price_and_sale(data) ==
    IF ~PriceVal(data).some THEN [price |-> <<>>, sale |-> None]
    ELSE IF CompareVal(data).some /\ CompareVal(data).val > PriceVal(data).val
    THEN [price |-> FormatAmount(CompareVal(data).val) \o Currency(data),
          sale |-> Some(FormatAmount(PriceVal(data).val) \o Currency(data))]
    ELSE [price |-> FormatAmount(PriceVal(data).val) \o Currency(data), sale |-> None]

PriceTexts ==
    { None, Some(<<"5", "0", ".", "0", "0">>), Some(<<"8", "9", "0", "0">>),
      Some(<<"1", "9", ".", "9", "9">>), Some(<<"5", "0", ".", "0", "0", "1">>),
      Some(<<"a", "b", "c">>), Some(<<"1", ".", "2", ".", "3">>) }
PriceRawTexts ==
    { None,
      Some(<<"$", "1", "9", ".", "9", "9", " ", "$", "1", "9", ".", "9", "9">>),
      Some(<<"9", ",", "5", "0", " ", EuroSign, " ", "8", ",", "0", "0", " ", EuroSign>>),
      Some(<<"1", "9", ".", "9", "9", " ", "E", "U", "R", " ", "2", "9", " ", "E", "U", "R">>) }
CompareTexts ==
    { None, Some(<<"7", "0", ".", "0", "0">>), Some(<<"4", "0", ".", "0", "0">>),
      Some(<<"5", "0", ".", "0", "0">>), Some(<<"5", "0", ".", "0", "0", "4">>),
      Some(<<"9", "9">>), Some(<<"1", "2", "0", "0", "0">>), Some(<<" ">>),
      Some(<<"n", "/", "a">>) }
CurrencyTexts == { None, Some(<<"e", "u", "r">>), Some(<<"C", "Z", "K">>) }

PriceInputs ==
    { [price |-> p, compareAtPrice |-> c,
       metadata |-> [priceRaw |-> r, priceCurrency |-> k]] :
      p \in PriceTexts, c \in CompareTexts, r \in PriceRawTexts, k \in CurrencyTexts }

InitPrice == pc = "call" /\ arg \in PriceInputs /\ ret = <<>> /\ ret2 = None
             /\ IdleScroll
             /\ IdleRun
             /\ IdleCollect
             /\ IdleMain

CallBuildPriceAndSale ==
    /\ pc = "call"
    /\ ret' = _build_price_and_sale(arg)
    /\ pc' = "return"
    /\ UNCHANGED <<arg, ret2, scrollVars, runVars, collectVars, mainVars>>

SpecPrice == InitPrice /\ [][CallBuildPriceAndSale]_vars

\* the amount a formatted price text shows, in thousandths
ShownAmount(text) == FloatOf(Keep(text, Digits \cup {"."}))

\* the compare-at amount parses and is strictly greater than the resolved price
SaleDue(data) == CompareVal(data).some /\ CompareVal(data).val > PriceVal(data).val

\* the sale is recorded exactly when it is due; then price is the formatted
\* compare-at amount and sale the formatted resolved price; otherwise price is the
\* formatted resolved price
PriceAndSaleShape(data, out) ==
    /\ out.sale.some <=> SaleDue(data)
    /\ SaleDue(data) =>
          /\ out.price = FormatAmount(CompareVal(data).val) \o Currency(data)
          /\ out.sale = Some(FormatAmount(PriceVal(data).val) \o Currency(data))
    /\ ~SaleDue(data) =>
          out.price = FormatAmount(PriceVal(data).val) \o Currency(data)

\* the examples of the specification: price 50.00 with compare-at 70.00 gives
\* ("70USD", "50USD"); with compare-at 40.00 it gives ("50USD", absent)
PriceExamples(data, out) ==
    (/\ data.price = Some(<<"5", "0", ".", "0", "0">>)
     /\ data.metadata.priceCurrency = None) =>
        /\ data.compareAtPrice = Some(<<"7", "0", ".", "0", "0">>) =>
              out = [price |-> <<"7", "0", "U", "S", "D">>,
                     sale |-> Some(<<"5", "0", "U", "S", "D">>)]
        /\ data.compareAtPrice = Some(<<"4", "0", ".", "0", "0">>) =>
              out = [price |-> <<"5", "0", "U", "S", "D">>, sale |-> None]

\* C6 as stated: with a parseable price, a sale is recorded iff the compare-at
\* amount parses and is strictly greater than the price; then price is the
\* formatted compare-at amount, sale the formatted price, and sale < price
\* numerically; otherwise price is the formatted price and sale is absent.
C6_SaleBelowPrice ==
    (pc = "return" /\ PriceVal(arg).some) =>
        /\ PriceAndSaleShape(arg, ret)
        /\ ret.sale.some => ShownAmount(ret.sale.val) < ShownAmount(ret.price)

\* C6: as stated, except that the sale shown is at most the price shown, and
\* strictly below it whenever the two amounts differ by a cent or more.
C6_SaleNotAbovePrice ==
    (pc = "return" /\ PriceVal(arg).some) =>
        /\ PriceAndSaleShape(arg, ret)
        /\ PriceExamples(arg, ret)
        /\ ret.sale.some =>
              /\ ShownAmount(ret.sale.val) <= ShownAmount(ret.price)
              /\ CompareVal(arg).val - PriceVal(arg).val >= Scale \div 100
                    => ShownAmount(ret.sale.val) < ShownAmount(ret.price)

\* a sale has been recorded, and one has been refused for a compare-at amount
\* that parses but is not above the price
C6_Witness ==
    /\ pc = "return"
    /\ PriceVal(arg).some
    /\ \/ ret.sale.some /\ ShownAmount(ret.sale.val) < ShownAmount(ret.price)
       \/ CompareVal(arg).some /\ ~ret.sale.some

----------------------------------------------------------------------------
(* Image classification: _is_embed_image_url, split_embed_and_extra_images *)

CdnFilesPath == <<"/">> \o CdnFiles
EME == <<"E", "M", "E">>
WebpSuffix == <<".", "w", "e", "b", "p">>

\* the number of digits a text starts with
RECURSIVE LeadingDigits(_)
LeadingDigits(t) ==
    IF t # <<>> /\ Head(t) \in Digits THEN 1 + LeadingDigits(Tail(t)) ELSE 0

\* EMBED_IMAGE_URL_PATTERN matched at the start of t:
\* /cdn/shop/files/\d{4}_\d{2}_\d{2}EME\d+\.webp
MatchesEmbedPattern(t) ==
    /\ StartsWith(t, CdnFilesPath)
    /\ LET r == From(t, Len(CdnFilesPath) + 1) IN
       /\ Len(r) >= 13
       /\ AllDigits(SubSeq(r, 1, 4)) /\ r[5] = "_"
       /\ AllDigits(SubSeq(r, 6, 7)) /\ r[8] = "_"
       /\ AllDigits(SubSeq(r, 9, 10))
       /\ SubSeq(r, 11, 13) = EME
       /\ LeadingDigits(From(r, 14)) >= 1
       /\ StartsWith(From(r, 14 + LeadingDigits(From(r, 14))), WebpSuffix)

\* bool(re.search(EMBED_IMAGE_URL_PATTERN, url))
_is_embed_image_url(url) ==
    url # <<>> /\ \E i \in 1..Len(url) : MatchesEmbedPattern(From(url, i))

\* lines 364-374: the loop over image_urls, from the state (embed_url, additional)
RECURSIVE SplitLoop(_, _, _)
SplitLoop(image_urls, embed_url, additional) ==
    IF image_urls = <<>> THEN [embed |-> embed_url, additional |-> additional]
    ELSE LET url == Strip(OrEmpty(Head(image_urls))) IN
         IF url = <<>> THEN SplitLoop(Tail(image_urls), embed_url, additional)
         ELSE IF _is_embed_image_url(url) /\ ~embed_url.some
         THEN SplitLoop(Tail(image_urls), Some(url), additional)
         ELSE SplitLoop(Tail(image_urls), embed_url, Append(additional, url))

\* the first image promoted to embed and left in the additional list
SplitKeepsPromoted(image_urls) ==
    LET r == SplitLoop(image_urls, None, <<>>) IN
    IF ~r.embed.some /\ r.additional # <<>>
    THEN [embed |-> Some(Head(r.additional)), additional |-> r.additional]
    ELSE r

\* the result (embed_url, additional) as a record
split_embed_and_extra_images(image_urls) ==
    LET r == SplitLoop(image_urls, None, <<>>) IN
    IF ~r.embed.some /\ r.additional # <<>>
    THEN [embed |-> Some(Head(r.additional)), additional |-> Tail(r.additional)]
    ELSE r

\* the longest list of image URLs drawn
MaxImages == 3

ImageUrlChoices ==
    { None, Some(<<>>), Some(<<" ">>),
      Some(CdnFilesPath \o <<"2", "0", "2", "4", "_", "0", "1", "_", "1", "5",
                             "E", "M", "E", "1", ".", "w", "e", "b", "p">>),
      Some(<<"x">> \o CdnFilesPath \o <<"2", "0", "2", "3", "_", "1", "2", "_", "0", "1",
                             "E", "M", "E", "2", "2", ".", "w", "e", "b", "p", " ">>),
      Some(CdnFilesPath \o <<"b", ".", "w", "e", "b", "p">>),
      Some(<<" ">> \o CdnFilesPath \o <<"2", "0", "2", "4", "_", "0", "1", "_", "1", "5",
                             "E", "M", "E", "x", ".", "w", "e", "b", "p">>) }

ImageLists == UNION { [1..n -> ImageUrlChoices] : n \in 0..MaxImages }

InitSplit == pc = "call" /\ arg \in ImageLists /\ ret = <<>> /\ ret2 = None
             /\ IdleScroll
             /\ IdleRun
             /\ IdleCollect
             /\ IdleMain

CallSplitImages ==
    /\ pc = "call"
    /\ ret' = split_embed_and_extra_images(arg)
    /\ pc' = "return"
    /\ UNCHANGED <<arg, ret2, scrollVars, runVars, collectVars, mainVars>>

SpecSplit == InitSplit /\ [][CallSplitImages]_vars

\* the stripped non-blank URLs of a list, in encounter order
RECURSIVE NonBlank(_)
NonBlank(urls) ==
    IF urls = <<>> THEN <<>>
    ELSE (IF Strip(OrEmpty(Head(urls))) = <<>> THEN <<>>
          ELSE <<Strip(OrEmpty(Head(urls)))>>) \o NonBlank(Tail(urls))

\* the place of the embed image among the non-blank URLs: the first that matches
\* the pattern, the first of all when none matches
EmbedPlace(nb) ==
    LET hits == {i \in 1..Len(nb) : _is_embed_image_url(nb[i])} IN
    IF hits = {} THEN 1 ELSE CHOOSE i \in hits : \A j \in hits : i <= j

\* C10: embed is the first non-blank URL matching the embed pattern, or the first
\* non-blank URL when none matches; additional is the other non-blank URLs in
\* encounter order, exactly that one occurrence removed; without a non-blank URL
\* embed is absent and additional is empty.
C10_SplitEmbedAndExtra ==
    pc = "return" =>
        LET nb == NonBlank(arg) IN
        IF nb = <<>> THEN ret = [embed |-> None, additional |-> <<>>]
        ELSE /\ ret.embed = Some(nb[EmbedPlace(nb)])
             /\ ret.additional = SubSeq(nb, 1, EmbedPlace(nb) - 1)
                                 \o SubSeq(nb, EmbedPlace(nb) + 1, Len(nb))

\* a list without a matching URL and with two or more non-blank URLs has been split
C10_Witness ==
    /\ pc = "return"
    /\ Len(NonBlank(arg)) >= 2
    /\ \A i \in 1..Len(NonBlank(arg)) : ~_is_embed_image_url(NonBlank(arg)[i])
    /\ ret.embed.some


----------------------------------------------------------------------------
(* The product page and the in-page extraction of scrape_product_page *)

\* a JSON number n where a text was expected
JsNumber(n) == [some |-> TRUE, number |-> n]
IsNumber(o) == "number" \in DOMAIN o

\* truthiness of an optional text or number, the same in JavaScript and Python
Truthy(o) == o.some /\ (IF IsNumber(o) THEN o.number # 0 ELSE o.val # <<>>)

\* a || b
JsOr(a, b) == IF Truthy(a) THEN a ELSE b

\* String(x) of a truthy text or number
JsString(o) == IF IsNumber(o) THEN Some(IntToText(o.number)) ELSE o

\* lines 121-137: normalizeImageUrl of the in-page script
NormalizeImageTextJs(u) ==
    IF StartsWith(u, HttpPrefix) \/ StartsWith(u, HttpsPrefix) THEN u
    ELSE IF StartsWith(u, <<"/", "/">>) THEN <<"h", "t", "t", "p", "s", ":">> \o u
    ELSE IF StartsWith(u, <<"/">>) THEN BaseNoSlash \o u
    ELSE IF Contains(u, CdnFiles) THEN BaseNoSlash \o <<"/">> \o From(u, Find(u, CdnFiles))
    ELSE IF Contains(u, SiteHost)
         THEN LET rest == From(u, Find(u, SiteHost) + 14)
                  path == IF StartsWith(rest, <<"/">>)
                          THEN <<"/">> \o LStrip(rest, {"/"}) ELSE rest
              IN  BaseNoSlash \o (IF path = <<>> THEN <<"/">> ELSE path)
    ELSE BaseNoSlash \o <<"/">> \o LStrip(u, {"/"})

NormalizeImageUrlJs(u) ==
    IF ~Truthy(u) THEN None
    ELSE Some(NormalizeImageTextJs(SplitFirst(Strip(u.val), "?")))

CdnShop == <<"c", "d", "n", "/", "s", "h", "o", "p">>
SiteName == <<"e", "m", "e", "s", "t", "u", "d", "i", "o", "s">>
FilesSegment == <<"/", "f", "i", "l", "e", "s", "/">>

Range(f) == {f[i] : i \in DOMAIN f}

\* urlSet.add(full) for each truthy full of a list, in order, without duplicates
RECURSIVE AddAll(_, _)
AddAll(urls, fulls) ==
    IF fulls = <<>> THEN urls
    ELSE AddAll(IF Truthy(Head(fulls)) /\ Head(fulls).val \notin Range(urls)
                THEN Append(urls, Head(fulls).val) ELSE urls,
                Tail(fulls))

\* lines 155-161: a part of a src or srcset attribute
ImgCandidate(url) ==
    IF url # <<>> /\ (Contains(url, CdnShop) \/ Contains(url, SiteName))
    THEN LET full == NormalizeImageUrlJs(Some(url)) IN
         IF Truthy(full) /\ (Contains(full.val, FilesSegment)
                             \/ Contains(full.val, ProductsMarker))
         THEN full ELSE None
    ELSE None

\* lines 166-170: a data-src or href attribute
DataCandidate(u) ==
    LET full == NormalizeImageUrlJs(Some(u)) IN
    IF u # <<>> /\ Truthy(full) /\ Contains(full.val, FilesSegment) THEN full ELSE None

\* line 140: the first h1 if the page has one, else the title-class element or
\* the og:title meta (page.titleEl)
TitleEl(page) ==
    IF page.h1Text.some THEN Some([content |-> None, text |-> page.h1Text.val])
    ELSE page.titleEl

\* lines 141-143
TitleFromDom(titleEl) ==
    IF ~titleEl.some THEN None
    ELSE IF Truthy(titleEl.val.content) THEN titleEl.val.content
    ELSE IF Strip(titleEl.val.text) # <<>> THEN Some(Strip(titleEl.val.text))
    ELSE None

\* content?.trim() || null, textContent?.trim()
Trimmed(o) == IF o.some /\ Strip(o.val) # <<>> THEN Some(Strip(o.val)) ELSE None

\* lines 118-184: the fields read from the DOM before the scripts are parsed
DomFields(page) ==
    [ title |-> TitleFromDom(TitleEl(page)),
      description |-> Trimmed(page.descMeta),
      category |-> None,
      price |-> None,
      compareAtPrice |-> None,
      images |-> AddAll(AddAll(<<>>, [i \in 1..Len(page.imgCandidates) |->
                                         ImgCandidate(page.imgCandidates[i])]),
                        [i \in 1..Len(page.dataCandidates) |->
                            DataCandidate(page.dataCandidates[i])]),
      metadata |-> [ priceRaw |-> page.priceRaw, priceCurrency |-> None, tags |-> None,
                     vendor |-> None, handle |-> None, collections |-> None,
                     breadcrumb |-> None ] ]

JsonImages(sc) == [i \in 1..Len(sc.images) |-> NormalizeImageUrlJs(Some(sc.images[i]))]

\* lines 190-248: one parsed script of the page
ApplyScript(out, sc) ==
    LET titled == [out EXCEPT !.title = JsOr(out.title, sc.name),
                              !.description = JsOr(out.description, sc.description)]
    IN
    IF sc.kind = "ld_list"
    THEN LET priced == IF sc.offer
                       THEN [titled EXCEPT !.price = JsOr(sc.price, out.metadata.priceRaw),
                                           !.metadata.priceCurrency = sc.currency]
                       ELSE titled
         IN  [priced EXCEPT !.images = AddAll(@, JsonImages(sc))]
    ELSE IF sc.kind = "ld_product"
    THEN [titled EXCEPT !.images = AddAll(@, JsonImages(sc))]
    ELSE IF sc.kind = "shopify"
    THEN LET priced ==
                 IF sc.variant
                 THEN [titled EXCEPT
                          !.price = IF Truthy(sc.price) THEN JsString(sc.price) ELSE @,
                          !.compareAtPrice =
                              IF sc.compare.some /\ (IsNumber(sc.compare) \/ sc.compare.val # <<>>)
                              THEN JsString(sc.compare) ELSE None,
                          !.metadata.priceCurrency =
                              IF Truthy(sc.price) THEN JsOr(sc.currency, Some(USD)) ELSE None]
                 ELSE titled
         IN  [priced EXCEPT
                 !.images = AddAll(@, JsonImages(sc)),
                 !.category = IF Truthy(sc.type) THEN sc.type ELSE @,
                 !.metadata.tags = IF Truthy(sc.tags) THEN sc.tags ELSE @,
                 !.metadata.vendor = IF Truthy(sc.vendor) THEN sc.vendor ELSE @,
                 !.metadata.handle = IF Truthy(sc.handle) THEN sc.handle ELSE @,
                 !.metadata.collections =
                     IF Truthy(sc.collections) THEN sc.collections ELSE @]
    ELSE out

\* lines 188-250: the scripts in document order
RECURSIVE ApplyScripts(_, _)
ApplyScripts(out, scripts) ==
    IF scripts = <<>> THEN out
    ELSE ApplyScripts(ApplyScript(out, Head(scripts)), Tail(scripts))

\* lines 117-260: the value page.evaluate returns
InPageExtract(page) ==
    LET out == ApplyScripts(DomFields(page), page.scripts) IN
    [out EXCEPT !.metadata.breadcrumb = IF page.breadcrumb.some
                                        THEN Some(Strip(page.breadcrumb.val)) ELSE @,
                !.category = IF page.catEl.some
                             THEN JsOr(out.category, Some(Strip(page.catEl.val))) ELSE @]

----------------------------------------------------------------------------
(* scrape_product_page *)

Raise == [kind |-> "raise"]
Nothing == [kind |-> "none"]
Row(d) == [kind |-> "row", data |-> d]

\* s.split(c) as a list of texts
RECURSIVE SplitAll(_, _)
SplitAll(s, c) ==
    IF Find(s, <<c>>) = 0 THEN <<s>>
    ELSE <<SubSeq(s, 1, Find(s, <<c>>) - 1)>> \o SplitAll(From(s, Find(s, <<c>>) + 1), c)

\* lines 283-286
CategoryOf(data) ==
    LET category == Strip(FirstTruthy(data.category, data.metadata.breadcrumb))
        parts == SplitAll(category, "&")
        split == IF Contains(category, <<"&">>)
                 THEN Join([i \in 1..Len(parts) |-> Strip(parts[i])], <<",", " ">>)
                 ELSE category
    IN  IF split = <<>> THEN None ELSE Some(split)

\* lines 262-267, for a page with an h1 element: the last-resort title
WithFallbackTitle(data, page) ==
    IF ~Truthy(data.title) /\ page.h1Text.val # <<>>
    THEN [data EXCEPT !.title = Some(Strip(page.h1Text.val))]
    ELSE data

\* the test of lines 269-270 left out
TitleNeverMissing(data) == FALSE

\* lines 269-270
TitleMissing(data) == ~Truthy(data.title)

\* [x for x in full if x]
RECURSIVE NonEmptyVals(_)
NonEmptyVals(full) ==
    IF full = <<>> THEN <<>>
    ELSE (IF Truthy(Head(full)) THEN <<Head(full).val>> ELSE <<>>)
         \o NonEmptyVals(Tail(full))

\* lines 272-280: the image list, normalized again
ImagesOf(data, page) ==
    LET urls == IF data.images = <<>>
                THEN (IF page.ogImage.val # <<>>
                      THEN <<_normalize_image_url(page.ogImage)>> ELSE <<>>)
                ELSE [i \in 1..Len(data.images) |-> Some(data.images[i])]
        full == [i \in 1..Len(urls) |-> _normalize_image_url(urls[i])]
    IN  NonEmptyVals(full)

\* lines 272-296: images, category, price and sale, gender
FinishScrape(data, page) ==
    IF data.images = <<>> /\ ~page.ogImage.some THEN Raise
    ELSE IF Truthy(data.price) /\ IsNumber(data.price) THEN Raise
    ELSE LET d1 == [data EXCEPT !.images = ImagesOf(data, page),
                                !.category = CategoryOf(data)]
             ps == _build_price_and_sale(d1)
         IN  Row([ title |-> OrEmpty(d1.title),
                   description |-> d1.description,
                   category |-> d1.category,
                   gender |-> _infer_gender(d1),
                   price |-> ps.price,
                   sale |-> ps.sale,
                   compareAtPrice |-> d1.compareAtPrice,
                   imageUrls |-> d1.images,
                   metadata |-> d1.metadata ])

\* the result: Raise (an exception), Nothing (None) or Row(data)
scrape_product_page(page) ==
    IF page.nav # "ok" THEN Raise
    ELSE LET out == InPageExtract(page) IN
         IF ~Truthy(out.title) /\ ~page.h1Text.some THEN Raise
         ELSE LET data == WithFallbackTitle(out, page) IN
              IF TitleMissing(data) THEN Nothing
              ELSE FinishScrape(data, page)

----------------------------------------------------------------------------
(* Pages scrape_product_page is applied to *)

\* a script that parses to something other than a product
OtherScript ==
    [ kind |-> "other", name |-> None, description |-> None, offer |-> FALSE,
      variant |-> FALSE, price |-> None, compare |-> None, currency |-> None,
      images |-> <<>>, type |-> None, tags |-> None, vendor |-> None, handle |-> None,
      collections |-> None ]

LdProduct == [OtherScript EXCEPT !.kind = "ld_product", !.name = Some(<<"T", "e", "e", " ", "J">>),
                                 !.images = <<<<"/", "c", "d", "n", "/", "s", "h", "o", "p", "/", "f", "i", "l", "e", "s", "/", "b", ".", "w", "e", "b", "p", "?", "v", "=", "1">>>>]
LdProductUnnamed == [OtherScript EXCEPT !.kind = "ld_product",
                                        !.description = Some(<<"S", "o", "f", "t", " ", "t", "e", "e">>)]
LdListNumber == [OtherScript EXCEPT !.kind = "ld_list", !.name = Some(<<"T", "e", "e", " ", "J">>),
                                    !.offer = TRUE, !.price = JsNumber(89),
                                    !.currency = Some(<<"e", "u", "r">>)]
LdListText == [LdListNumber EXCEPT !.price = Some(<<"1", "9", ".", "9", "9">>)]
ShopifyProduct ==
    [OtherScript EXCEPT !.kind = "shopify", !.name = Some(<<"T", "e", "e", " ", "S">>), !.variant = TRUE,
                        !.price = JsNumber(8900), !.compare = JsNumber(9900),
                        !.type = Some(<<"T", "o", "p", "s", " ", "&", " ", "T", "e", "e", "s">>), !.tags = Some(<<"w", "o", "m", "e", "n", "'", "s">>),
                        !.handle = Some(<<"t", "e", "e", "-", "s">>),
                        !.images = <<<<"/", "/", "e", "m", "e", "s", "t", "u", "d", "i", "o", "s", ".", "c", "o", "m", "/", "c", "d", "n", "/", "s", "h", "o", "p", "/", "f", "i", "l", "e", "s", "/", "E", "M", "E", "1", ".", "w", "e", "b", "p">>>>]

ScriptLists ==
    { <<>>, <<OtherScript>>, <<LdProduct>>, <<LdProductUnnamed>>, <<LdListNumber>>,
      <<LdListText>>, <<ShopifyProduct>>, <<LdProductUnnamed, ShopifyProduct>>,
      <<ShopifyProduct, LdProduct>> }

H1Texts == { None, Some(<<>>), Some(<<" ">>), Some(<<" ", "T", "e", "e", " ">>) }
TitleEls ==
    { None, Some([content |-> Some(<<"T", "e", "e", " ", "O", "G">>), text |-> <<>>]),
      Some([content |-> None, text |-> <<" ", "C", "a", "p", " ">>]),
      Some([content |-> None, text |-> <<" ">>]) }
\* the content of the og:image meta: None when the page has no such element,
\* the empty text when the element has no content
OgImages == { None, Some(<<>>), Some(<<"/", "/", "c", "d", "n", ".", "x", "/", "c", "d", "n", "/", "s", "h", "o", "p", "/", "a", ".", "p", "n", "g">>) }
\* the parts of the src and srcset attributes, and the data-src and href attributes
ImageSources ==
    { [img |-> <<>>, data |-> <<>>],
      [img |-> <<<<"c", "d", "n", "/", "s", "h", "o", "p", "/", "f", "i", "l", "e", "s", "/", "E", "M", "E", "2", ".", "w", "e", "b", "p", "?", "w", "i", "d", "t", "h", "=", "8", "0", "0">>, <<"8", "0", "0", "w">>,
                 <<"h", "t", "t", "p", "s", ":", "/", "/", "e", "m", "e", "s", "t", "u", "d", "i", "o", "s", ".", "c", "o", "m", "/", "l", "o", "g", "o", ".", "p", "n", "g">>>>, data |-> <<>>],
      [img |-> <<>>, data |-> <<<<"/", "/", "c", "d", "n", ".", "x", "/", "c", "d", "n", "/", "s", "h", "o", "p", "/", "f", "i", "l", "e", "s", "/", "c", ".", "j", "p", "g">>,
                                <<"/", "c", "d", "n", "/", "s", "h", "o", "p", "/", "t", "/", "1", "/", "a", "s", "s", "e", "t", "s", "/", "x", ".", "j", "s">>>>] }
CatEls == { None, Some(<<" ", "N", "e", "w", " ", "I", "n", " ">>) }

OkPages ==
    { [ nav |-> "ok", h1Text |-> h, titleEl |-> e, descMeta |-> Some(<<" ", "A", " ", "t", "e", "e", " ">>),
        imgCandidates |-> i.img, dataCandidates |-> i.data, priceRaw |-> Some(<<"$", " ", "2", "5", ".", "0", "0">>),
        scripts |-> sc, breadcrumb |-> c, catEl |-> c, ogImage |-> og ] :
      h \in H1Texts, e \in TitleEls, sc \in ScriptLists, og \in OgImages,
      i \in ImageSources, c \in CatEls }

\* line 114: the navigation times out
TimeoutPage == [(CHOOSE p \in OkPages : TRUE) EXCEPT !.nav = "timeout"]

Pages == OkPages \cup {TimeoutPage}

InitScrape ==
    /\ pc = "call"
    /\ arg \in Pages
    /\ ret = <<>>
    /\ ret2 = <<>>
    /\ IdleScroll
    /\ IdleRun
    /\ IdleCollect
    /\ IdleMain

CallScrapeProductPage ==
    /\ pc = "call"
    /\ ret' = scrape_product_page(arg)
    /\ pc' = "return"
    /\ UNCHANGED <<arg, ret2, scrollVars, runVars, collectVars, mainVars>>

SpecScrape == InitScrape /\ [][CallScrapeProductPage]_vars

\* the first title a product JSON of the page carries
RECURSIVE JsonTitle(_)
JsonTitle(scripts) ==
    IF scripts = <<>> THEN None
    ELSE IF Head(scripts).kind # "other" /\ Truthy(Head(scripts).name)
    THEN Head(scripts).name
    ELSE JsonTitle(Tail(scripts))

\* C9: when the DOM heading and a structured product JSON both supply a
\* non-empty title, the record's title is the one of the structured JSON
C9_JsonTitleWins ==
    (/\ pc = "return"
     /\ arg \in OkPages
     /\ ret.kind = "row"
     /\ Truthy(TitleFromDom(TitleEl(arg)))
     /\ Truthy(JsonTitle(arg.scripts)))
    => ret.data.title = JsonTitle(arg.scripts).val

----------------------------------------------------------------------------
(* run_scraper: the product pass *)

MaxUrls == 3

\* lines 419-424: the record appended for a scraped product
RowOf(data, product_url) ==
    LET split == split_embed_and_extra_images(
                     [i \in 1..Len(data.imageUrls) |-> Some(data.imageUrls[i])])
    IN  [ product_url |-> product_url,
          title |-> data.title,
          description |-> data.description,
          category |-> data.category,
          gender |-> data.gender,
          price |-> data.price,
          sale |-> data.sale,
          compareAtPrice |-> data.compareAtPrice,
          metadata |-> data.metadata,
          image_url |-> OrEmpty(split.embed),
          additional_images |-> Join(split.additional, <<" ", ",", " ">>) ]

\* the loop left at the first exception
AfterVisitBreak(row, i, n) == IF row.kind = "raise" THEN n ELSE i + 1

\* lines 416 and 426-427: the for loop goes on to the next URL, whatever the visit did
AfterVisit(row, i, n) == i + 1

\* a page with no title anywhere and no og:image, and the pages a visit can meet
BarePage ==
    [ nav |-> "ok", h1Text |-> None, titleEl |-> None, descMeta |-> None,
      imgCandidates |-> <<>>, dataCandidates |-> <<>>, priceRaw |-> Some(<<"$", " ", "2", "5", ".", "0", "0">>),
      scripts |-> <<>>, breadcrumb |-> None, catEl |-> None, ogImage |-> None ]
RunPages ==
    { [BarePage EXCEPT !.nav = "timeout"],
      BarePage,
      [BarePage EXCEPT !.h1Text = Some(<<" ">>),
                       !.ogImage = Some(<<"/", "/", "c", "d", "n", ".", "x", "/", "c", "d", "n", "/", "s", "h", "o", "p", "/", "a", ".", "p", "n", "g">>)],
      [BarePage EXCEPT !.h1Text = Some(<<" ", "T", "e", "e", " ">>)],
      [BarePage EXCEPT !.h1Text = Some(<<>>), !.scripts = <<LdListNumber>>,
                       !.ogImage = Some(<<>>)],
      [BarePage EXCEPT !.h1Text = Some(<<" ", "T", "e", "e", " ">>), !.scripts = <<ShopifyProduct>>],
      [BarePage EXCEPT !.scripts = <<LdProduct>>, !.catEl = Some(<<" ", "N", "e", "w", " ", "I", "n", " ">>)] }

\* line 418, for each of these pages
ScrapeOf == [page \in RunPages |-> scrape_product_page(page)]

\* the lists of at most n elements of S
RECURSIVE ListsUpTo(_, _)
ListsUpTo(S, n) ==
    IF n = 0 THEN {<<>>}
    ELSE LET shorter == ListsUpTo(S, n - 1) IN
         shorter \cup {Append(q, x) : q \in shorter, x \in S}

\* line 414: the product pass starts from the list the first pass returned,
\* a set turned into a list
InitRun ==
    /\ pc = "scrape"
    /\ all_urls \in {q \in ListsUpTo(UrlsOf(AnchorHrefs), MaxUrls) :
                         \A i, j \in 1..Len(q) : q[i] = q[j] => i = j}
    /\ idx = 0
    /\ products = <<>>
    /\ visited = <<>>
    /\ IdlePure
    /\ IdleScroll
    /\ IdleCollect
    /\ IdleMain

\* lines 416-427: one iteration of the loop
ScrapeNext ==
    /\ pc = "scrape"
    /\ idx < Len(all_urls)
    /\ \E page \in RunPages :
          LET product_url == all_urls[idx + 1]
              row == ScrapeOf[page]
          IN  /\ products' = IF row.kind = "row"
                             THEN Append(products, RowOf(row.data, product_url))
                             ELSE products
              /\ visited' = Append(visited, [url |-> product_url, page |-> page,
                                             kind |-> row.kind])
              /\ idx' = AfterVisit(row, idx, Len(all_urls))
    /\ UNCHANGED <<pc, all_urls, pureVars, scrollVars, collectVars, mainVars>>

\* lines 428-432: the loop is over, the list is returned
ReturnProducts ==
    /\ pc = "scrape"
    /\ idx >= Len(all_urls)
    /\ pc' = "done"
    /\ UNCHANGED <<runVars, pureVars, scrollVars, collectVars, mainVars>>

NextRun == ScrapeNext \/ ReturnProducts

SpecRun == InitRun /\ [][NextRun]_vars

----------------------------------------------------------------------------
(* The records run_scraper returns *)

\* the page yields a non-empty title, in the page or at the last-resort h1 read
YieldsTitle(page) ==
    \/ Truthy(InPageExtract(page).title)
    \/ (page.h1Text.some /\ Strip(page.h1Text.val) # <<>>)

\* the visits that reached a page without any title
Untitled == {i \in 1..Len(visited) : visited[i].page.nav = "ok" /\ ~YieldsTitle(visited[i].page)}

\* the visits whose scrape returned a record, in visit order
IsRowVisit(v) == v.kind = "row"
RowVisits == SelectSeq(visited, IsRowVisit)

C8_EveryUrlVisitedOnce ==
    /\ Len(visited) = idx
    /\ idx <= Len(all_urls)
    /\ \A i \in 1..Len(visited) : visited[i].url = all_urls[i]
    /\ pc = "done" => idx = Len(all_urls)
    /\ Len(products) = Len(RowVisits)
    /\ \A i \in 1..Len(products) :
          /\ products[i].product_url = RowVisits[i].url
          /\ products[i] = RowOf(ScrapeOf[RowVisits[i].page].data, RowVisits[i].url)

C8_Witness ==
    /\ pc = "done"
    /\ Len(all_urls) = 3
    /\ visited[1].kind = "raise"
    /\ visited[2].kind = "none"
    /\ visited[3].kind = "row"
    /\ Len(products) = 1
    /\ products[1].product_url = all_urls[3]

----------------------------------------------------------------------------
(* supabase_client.py: the rows sent to the products table *)

SOURCE == <<"s", "c", "r", "a", "p", "e", "r">>
BRAND == <<"E", "m", "e", " ", "S", "t", "u", "d", "i", "o", "s">>

\* the hash is not computed: the identifier is the hashed text, tagged
_product_id(product_url) == [sha256 |-> SOURCE \o <<":">> \o product_url]

\* x or None on a text
TextOrNone(x) == IF x = <<>> THEN None ELSE Some(x)

\* a dictionary without any key; the model keeps a key whose value is None as absent
MetaEmpty(meta) == \A k \in DOMAIN meta : ~meta[k].some

\* the JSON text is not computed: it is the dumped mapping, tagged
_metadata_string(product) ==
    IF MetaEmpty(product.metadata) THEN None ELSE Some([json |-> product.metadata])

\* lines 22-39, without created_at (the clock)
BaseRow(product) ==
    [ id |-> _product_id(product.product_url),
      source |-> SOURCE,
      product_url |-> product.product_url,
      image_url |-> product.image_url,
      brand |-> BRAND,
      title |-> product.title,
      description |-> TextOrNone(Strip(OrEmpty(product.description))),
      category |-> TextOrNone(OrEmpty(product.category)),
      gender |-> product.gender,
      price |-> TextOrNone(product.price),
      sale |-> TextOrNone(OrEmpty(product.sale)),
      second_hand |-> FALSE,
      country |-> None,
      metadata |-> _metadata_string(product),
      additional_images |-> TextOrNone(product.additional_images) ]

\* an absent vector written as an explicit null
RowWithNulls(product, image_embedding, info_embedding) ==
    BaseRow(product) @@
        [image_embedding |-> IF image_embedding # None THEN image_embedding.val ELSE None,
         info_embedding |-> IF info_embedding # None THEN info_embedding.val ELSE None]

\* lines 15-44: a mapping whose keys depend on the vectors
_row_from_product(product, image_embedding, info_embedding) ==
    LET row == BaseRow(product)
        row1 == IF image_embedding # None
                THEN row @@ [image_embedding |-> image_embedding.val] ELSE row
    IN  IF info_embedding # None
        THEN row1 @@ [info_embedding |-> info_embedding.val] ELSE row1

\* lines 72-73: x or [None] * n
OrNones(embeddings, n) == IF embeddings = <<>> THEN [i \in 1..n |-> None] ELSE embeddings

\* lines 76-77
At(embeddings, i) == IF i <= Len(embeddings) THEN embeddings[i] ELSE None

\* a product without a text vector left out of the rows
UpsertRowsEmbeddedOnly(prods, image_embs, info_embs) ==
    LET rows == [i \in 1..Len(prods) |->
                    _row_from_product(prods[i], At(OrNones(image_embs, Len(prods)), i),
                                                At(OrNones(info_embs, Len(prods)), i))]
        HasInfo(row) == "info_embedding" \in DOMAIN row
    IN  SelectSeq(rows, HasInfo)

\* lines 70-78 of upsert_products: the rows it sends
UpsertRows(prods, image_embs, info_embs) ==
    [i \in 1..Len(prods) |->
        _row_from_product(prods[i], At(OrNones(image_embs, Len(prods)), i),
                                    At(OrNones(info_embs, Len(prods)), i))]

\* config.py lines 9-10
SUPABASE_URL == Strip(env.url)
SUPABASE_KEY == Strip(env.key)

\* the upload attempted whatever the credentials are
CredentialsNeverMissing(url, key) == FALSE

\* main line 68 and get_client line 58
CredentialsMissing(url, key) == url = <<>> \/ key = <<>>

\* lines 57-60: the configuration error, or the client create_client builds
get_client(url, key) ==
    IF CredentialsMissing(url, key)
    THEN [raised |-> TRUE, created |-> FALSE]
    ELSE [raised |-> FALSE, created |-> TRUE]

----------------------------------------------------------------------------
(* main *)

MaxProducts == 2

\* a product page with a title and no image at all
NoImagePage == [BarePage EXCEPT !.h1Text = Some(<<" ", "H", "a", "t", " ">>), !.ogImage = Some(<<>>)]

\* scraped records with and without an image to embed
RowData ==
    { scrape_product_page(NoImagePage).data,
      scrape_product_page([BarePage EXCEPT !.h1Text = Some(<<" ", "T", "e", "e", " ">>),
                                           !.scripts = <<ShopifyProduct>>]).data }

\* the URL of the i-th product
ProductUrl(i) == BASE_URL \o ProductsMarker \o IntToText(i)

\* the lists run_scraper can return
ProductLists ==
    { [i \in 1..Len(q) |-> RowOf(q[i], ProductUrl(i))] : q \in ListsUpTo(RowData, MaxProducts) }

\* the vectors the embedding model can return, and a failure
Vectors == { <<1>>, <<2>> }
Embeddings == {None} \cup {Some(v) : v \in Vectors}

EnvValues ==
    { [url |-> <<>>, key |-> <<>>],
      [url |-> <<" ">>, key |-> <<"k", "e", "y">>],
      [url |-> <<" ", "h", "t", "t", "p", "s", ":", "/", "/", "x", ".", "s", "u", "p", "a", "b", "a", "s", "e", ".", "c", "o">>, key |-> <<>>],
      [url |-> <<" ", "h", "t", "t", "p", "s", ":", "/", "/", "x", ".", "s", "u", "p", "a", "b", "a", "s", "e", ".", "c", "o">>, key |-> <<"k", "e", "y">>] }

InitMain ==
    /\ pc = "main"
    /\ env \in EnvValues
    /\ skip_embeddings \in BOOLEAN
    /\ image_embeddings = <<>>
    /\ info_embeddings = <<>>
    /\ calls = <<>>
    /\ outcome = ""
    /\ IdlePure
    /\ IdleScroll
    /\ IdleRun
    /\ IdleCollect

\* lines 38-43: run_scraper raises, returns nothing to upload, or returns products
MainScrape ==
    /\ pc = "main"
    /\ \/ /\ outcome' = "raised"
          /\ pc' = "done"
          /\ UNCHANGED products
       \/ \E prods \in ProductLists :
             /\ products' = prods
             /\ IF prods = <<>>
                THEN outcome' = "returned" /\ pc' = "done"
                ELSE outcome' = outcome /\ pc' = "embed"
    /\ UNCHANGED <<env, skip_embeddings, image_embeddings, info_embeddings, calls>>
    /\ UNCHANGED <<all_urls, idx, visited, pureVars, scrollVars, collectVars>>

\* lines 50-63: the embeddings of one product; a failed fetch or a model error
\* gives None
EmbedProduct ==
    /\ pc = "embed"
    /\ ~skip_embeddings
    /\ LET i == Len(info_embeddings) + 1 IN
       /\ \E emb \in Embeddings :
             image_embeddings' =
                 Append(image_embeddings,
                        IF products[i].image_url # <<>> THEN emb ELSE None)
       /\ \E emb \in Embeddings : info_embeddings' = Append(info_embeddings, emb)
       /\ pc' = IF i = Len(products) THEN "upload" ELSE "embed"
    /\ UNCHANGED <<env, skip_embeddings, calls, outcome>>
    /\ UNCHANGED <<runVars, pureVars, scrollVars, collectVars>>

\* lines 64-66
SkipEmbeddings ==
    /\ pc = "embed"
    /\ skip_embeddings
    /\ image_embeddings' = [i \in 1..Len(products) |-> None]
    /\ info_embeddings' = [i \in 1..Len(products) |-> None]
    /\ pc' = "upload"
    /\ UNCHANGED <<env, skip_embeddings, calls, outcome>>
    /\ UNCHANGED <<runVars, pureVars, scrollVars, collectVars>>

\* lines 68-73: without credentials main returns, else it asks for the client
GetClient ==
    /\ pc = "upload"
    /\ IF CredentialsMissing(SUPABASE_URL, SUPABASE_KEY)
       THEN /\ outcome' = "returned"
            /\ pc' = "done"
            /\ UNCHANGED calls
       ELSE /\ calls' = Append(calls, [op |-> "get_client", rows |-> <<>>])
            /\ IF get_client(SUPABASE_URL, SUPABASE_KEY).raised
               THEN outcome' = "raised" /\ pc' = "done"
               ELSE outcome' = outcome /\ pc' = "upsert"
    /\ UNCHANGED <<env, skip_embeddings, image_embeddings, info_embeddings>>
    /\ UNCHANGED <<runVars, pureVars, scrollVars, collectVars>>

\* lines 74-75 and upsert_products: the rows are sent; a rejected upsert is raised again
UpsertProducts ==
    /\ pc = "upsert"
    /\ calls' = Append(calls, [op |-> "upsert",
                               rows |-> UpsertRows(products, image_embeddings,
                                                   info_embeddings)])
    /\ outcome' \in {"returned", "raised"}
    /\ pc' = "done"
    /\ UNCHANGED <<env, skip_embeddings, image_embeddings, info_embeddings>>
    /\ UNCHANGED <<runVars, pureVars, scrollVars, collectVars>>

NextMain == MainScrape \/ EmbedProduct \/ SkipEmbeddings \/ GetClient \/ UpsertProducts

SpecMain == InitMain /\ [][NextMain]_vars

\* C11: without credentials and with at least one product, main finishes the
\* scraping and, unless skipped, the embedding of every product, then returns
\* normally: no call to get_client or upsert_products, no exception; get_client
\* itself raises the configuration error and creates no client
C11_NoUploadWithoutCredentials ==
    /\ (CredentialsMissing(SUPABASE_URL, SUPABASE_KEY) /\ products # <<>>) =>
          /\ calls = <<>>
          /\ outcome # "raised"
          /\ pc = "done" =>
                /\ outcome = "returned"
                /\ Len(image_embeddings) = Len(products)
                /\ Len(info_embeddings) = Len(products)
    /\ \A e \in EnvValues :
          (Strip(e.url) = <<>> \/ Strip(e.key) = <<>>) =>
              /\ get_client(Strip(e.url), Strip(e.key)).raised
              /\ ~get_client(Strip(e.url), Strip(e.key)).created

C11_Witness ==
    /\ pc = "done"
    /\ env.url # <<>>
    /\ CredentialsMissing(SUPABASE_URL, SUPABASE_KEY)
    /\ ~skip_embeddings
    /\ Len(products) = 2
    /\ info_embeddings[1] # None
    /\ outcome = "returned"

\* the rows of the upsert calls made so far, each with the vectors main holds for it
SentRows ==
    {[row |-> calls[c].rows[i], image |-> image_embeddings[i], info |-> info_embeddings[i]] :
        c \in {k \in 1..Len(calls) : calls[k].op = "upsert"}, i \in 1..Len(products)}

\* C12: a row carries the key image_embedding (info_embedding) exactly when the
\* vector given for it is present, and then with that vector; with
\* --skip-embeddings no row carries either key
C12_EmbeddingKeyIffVector ==
    \A r \in SentRows :
        /\ ("image_embedding" \in DOMAIN r.row) <=> (r.image # None)
        /\ ("info_embedding" \in DOMAIN r.row) <=> (r.info # None)
        /\ r.image # None => r.row.image_embedding = r.image.val
        /\ r.info # None => r.row.info_embedding = r.info.val
        /\ skip_embeddings =>
              {"image_embedding", "info_embedding"} \cap DOMAIN r.row = {}

C12_Witness ==
    /\ ~skip_embeddings
    /\ \E r \in SentRows :
          /\ r.image # None /\ r.info = None
          /\ "image_embedding" \in DOMAIN r.row
          /\ "info_embedding" \notin DOMAIN r.row
    /\ \E r \in SentRows : r.image = None /\ r.info # None

----------------------------------------------------------------------------
(* _normalize_amount on its own *)

MaxAmountLen == 4

AmountAlphabet == {"0", "1", "8", "9", ".", ",", "$"}

\* every text of at most MaxAmountLen characters of the alphabet
AmountTexts == ListsUpTo(AmountAlphabet, MaxAmountLen)

InitAmount ==
    /\ pc = "call"
    /\ arg \in AmountTexts
    /\ ret = <<>>
    /\ ret2 = <<>>
    /\ IdleScroll
    /\ IdleRun
    /\ IdleCollect
    /\ IdleMain

CallNormalizeAmount ==
    /\ pc = "call"
    /\ ret' = _normalize_amount(arg)
    /\ pc' = "return"
    /\ UNCHANGED <<arg, ret2, scrollVars, runVars, collectVars, mainVars>>

SpecAmount == InitAmount /\ [][CallNormalizeAmount]_vars

\* the text left when only digits, "." and "," are kept and "," is turned into "."
Cleaned(text) ==
    [i \in 1..Len(Keep(text, Digits \cup {".", ","})) |->
        IF Keep(text, Digits \cup {".", ","})[i] = "," THEN "."
        ELSE Keep(text, Digits \cup {".", ","})[i]]

\* digits, then possibly a "." and further digits
DigitsDotDigits(num) ==
    \E k \in 1..Len(num) :
        /\ AllDigits(SubSeq(num, 1, k))
        /\ \/ k = Len(num)
           \/ num[k + 1] = "." /\ AllDigits(SubSeq(num, k + 2, Len(num)))

\* the value of a text written digits.digits, in thousandths
WrittenValue(num) ==
    LET k == CHOOSE j \in 1..Len(num) : num[j] = "."
        decimals == SubSeq(num, k + 1, Len(num))
        Place(i) == IF i = 1 THEN 100 ELSE IF i = 2 THEN 10 ELSE IF i = 3 THEN 1 ELSE 0
        RECURSIVE Sum(_)
        Sum(i) == IF i = 0 THEN 0 ELSE Sum(i - 1) + Place(i) * DigitValue(decimals[i])
    IN  Scale * IntOf(SubSeq(num, 1, k - 1)) + Sum(Len(decimals))

\* C13: on the cleaned text (digits, "." and "," kept, "," turned into "."):
\* digits only and at least 100 gives the amount divided by 100; digits only
\* below 100, or written with a decimal separator, gives the face value; an
\* empty text or one not of the form digits, optional ".", optional digits
\* gives no value; "8900" gives 89.00 and "19.99" gives 19.99
C13_AmountAsClaimed ==
    /\ pc = "return" =>
          LET num == Cleaned(arg) IN
          IF arg = <<>> \/ ~DigitsDotDigits(num) THEN ret = None
          ELSE IF AllDigits(num)
               THEN (IF IntOf(num) >= 100
                     THEN ret = Some((Scale * IntOf(num)) \div 100)
                     ELSE ret = Some(Scale * IntOf(num)))
               ELSE ret = Some(WrittenValue(num))
    /\ _normalize_amount(<<"8", "9", "0", "0">>) = Some(89 * Scale)
    /\ _normalize_amount(<<"1", "9", ".", "9", "9">>) = Some(19 * Scale + 990)

C13_Witness ==
    /\ pc = "return"
    /\ arg = <<"8", "9", "0", "0">>
    /\ ret = Some(89 * Scale)

----------------------------------------------------------------------------
(* The scroll loop ends *)

\* C14: collect_product_urls_from_category terminates whatever the page
\* returns: the loop body runs at most MAX_SCROLL_ATTEMPTS times, with at most
\* two scrolls in each run, and the discovered set only grows
C14_ScrollLoopTerminates ==
    /\ <>(pc = "done")
    /\ [](/\ attempt <= MAX_SCROLL_ATTEMPTS
          /\ pc # "done" => attempt < MAX_SCROLL_ATTEMPTS
          /\ scrolls <= 2)
    /\ [][seen \subseteq seen']_vars

C14_Witness ==
    /\ pc = "done"
    /\ exit = "ceiling"
    /\ attempt = MAX_SCROLL_ATTEMPTS
    /\ scrolls = 2
    /\ seen # {}

----------------------------------------------------------------------------
(* collect_all_product_urls, and run_scraper from its first pass on *)

CATEGORY_URLS ==
    << <<"h", "t", "t", "p", "s", ":", "/", "/", "e", "m", "e", "s", "t", "u", "d", "i", "o", "s", ".", "c", "o", "m", "/", "e", "n", "-", "a", "t", "/", "c", "o", "l", "l", "e", "c", "t", "i", "o", "n", "s", "/", "a", "l", "l", "-", "p", "r", "o", "d", "u", "c", "t", "s", "-", "o", "l", "d", "-", "e", "f", "6", "8", "9", "c">>,
       <<"h", "t", "t", "p", "s", ":", "/", "/", "e", "m", "e", "s", "t", "u", "d", "i", "o", "s", ".", "c", "o", "m", "/", "e", "n", "-", "a", "t", "/", "c", "o", "l", "l", "e", "c", "t", "i", "o", "n", "s", "/", "a", "c", "c", "e", "s", "s", "o", "r", "i", "e", "s">> >>

\* list(seen): the elements of a set in some order
ListsOf(S) ==
    {q \in ListsUpTo(S, Cardinality(S)) :
        Len(q) = Cardinality(S) /\ Range(q) = S}

\* the list returned whole
NotTruncated(result, budget) == result

\* lines 394-395: result[:max_urls]
Truncated(result, budget) ==
    IF budget.some /\ budget.val < Len(result)
    THEN SubSeq(result, 1, budget.val) ELSE result

\* the locals of collect_product_urls_from_category, before and after a call
ScrollLocalsAtRest ==
    /\ seen' = {} /\ attempt' = 0 /\ prev_count' = 0 /\ after_links' = 0
    /\ found' = {} /\ quiet' = 0 /\ scrolls' = 0 /\ exit' = ""

\* run_scraper line 408: the first pass starts, with limit as the budget
InitCollect ==
    /\ pc = "collect"
    /\ max_urls \in Budgets
    /\ seen = {} /\ attempt = 0 /\ prev_count = 0 /\ after_links = 0
    /\ found = {} /\ quiet = 0 /\ scrolls = 0 /\ exit = ""
    /\ IdlePure
    /\ IdleRun
    /\ IdleCollect
    /\ IdleMain

\* lines 382-383
NewPage ==
    /\ pc = "collect"
    /\ page_open' = "open"
    /\ acc' = {}
    /\ cat' = 0
    /\ pc' = "category"
    /\ UNCHANGED <<cat_visits, cexit, scrollVars, pureVars, runVars, mainVars>>

\* line 385 and lines 65-67: the next category page is opened and its loop starts
EnterCategory ==
    /\ pc = "category"
    /\ cat < Len(CATEGORY_URLS)
    /\ cat_visits' = Append(cat_visits, Cardinality(acc))
    /\ ScrollLocalsAtRest
    /\ pc' = "read"
    /\ UNCHANGED <<max_urls, cat, acc, page_open, cexit, pureVars, runVars, mainVars>>

\* lines 384 and 391-392: a call of the page raises (the navigation, a read, a
\* scroll); the page is closed and the exception leaves run_scraper
CategoryRaises ==
    /\ pc \in {"category", "read", "count", "lookahead"}
    /\ page_open = "open"
    /\ page_open' = "closed"
    /\ cexit' = "raised"
    /\ ScrollLocalsAtRest
    /\ pc' = "failed"
    /\ UNCHANGED <<max_urls, cat, acc, cat_visits, pureVars, runVars, mainVars>>

\* lines 386-390: the URLs of the category are added; the loop over the
\* categories ends when the budget is met or no category is left
LeaveCategory ==
    /\ pc = "done"
    /\ page_open = "open"
    /\ acc' = acc \cup found
    /\ cat' = cat + 1
    /\ ScrollLocalsAtRest
    /\ pc' = IF \/ max_urls.some /\ Cardinality(acc \cup found) >= max_urls.val
                \/ cat + 1 >= Len(CATEGORY_URLS)
             THEN "finish" ELSE "category"
    /\ UNCHANGED <<max_urls, page_open, cat_visits, cexit, pureVars, runVars, mainVars>>

\* lines 391-396 and run_scraper lines 408-415: the page is closed, the list
\* is returned and the product pass starts from it
ReturnUrls ==
    /\ pc = "finish"
    /\ page_open' = "closed"
    /\ \E result \in ListsOf(acc) :
          /\ all_urls' = Truncated(result, max_urls)
          /\ cexit' = IF Len(all_urls') < Len(result) THEN "truncated" ELSE "returned"
    /\ acc' = {}
    /\ cat' = 0
    /\ cat_visits' = <<>>
    /\ pc' = "scrape"
    /\ UNCHANGED <<idx, products, visited, scrollVars, pureVars, mainVars>>

NextCollect ==
    \/ NewPage \/ EnterCategory \/ CategoryRaises \/ LeaveCategory \/ ReturnUrls
    \/ ReadLinks \/ ScrollAndCount \/ Lookahead \/ LoopTail
    \/ ScrapeNext \/ ReturnProducts

SpecCollect == InitCollect /\ [][NextCollect]_vars

\* C15: with a budget n, collect_all_product_urls returns at most n URLs, all
\* distinct; no further category page is visited once the accumulated set has
\* n URLs; its page is closed on every exit, return or exception; and
\* run_scraper(limit=n) visits at most n product pages
C15_BudgetKept ==
    /\ cexit \in {"returned", "truncated"} =>
          /\ max_urls.some => Len(all_urls) <= max_urls.val
          /\ \A i, j \in 1..Len(all_urls) : all_urls[i] = all_urls[j] => i = j
    /\ \A i \in 2..Len(cat_visits) : max_urls.some => cat_visits[i] < max_urls.val
    /\ cexit # "" => page_open = "closed"
    /\ pc \in {"scrape", "failed"} => page_open = "closed"
    /\ max_urls.some => Len(visited) <= max_urls.val

C15_Witness ==
    /\ pc = "done"
    /\ max_urls = Some(2)
    /\ cexit = "truncated"
    /\ Len(all_urls) = 2
    /\ Len(visited) = 2

----------------------------------------------------------------------------
(* One row for each scraped product *)

UpsertCalls == {k \in 1..Len(calls) : calls[k].op = "upsert"}

\* C16: with credentials and products, upsert_products is called once, after
\* the embedding step of every product, with two lists as long as the product
\* list whose i-th entries are those of the i-th product; a failed image fetch
\* or text embedding leaves the entry absent and the product in place: one row
\* for each product, in order
C16_OneRowPerProduct ==
    (~CredentialsMissing(SUPABASE_URL, SUPABASE_KEY) /\ products # <<>>) =>
        /\ pc = "done" => Cardinality(UpsertCalls) = 1
        /\ Cardinality(UpsertCalls) <= 1
        /\ \A k \in UpsertCalls :
              /\ Len(image_embeddings) = Len(products)
              /\ Len(info_embeddings) = Len(products)
              /\ Len(calls[k].rows) = Len(products)
              /\ \A i \in 1..Len(products) :
                    /\ calls[k].rows[i].product_url = products[i].product_url
                    /\ calls[k].rows[i].title = products[i].title
                    /\ products[i].image_url = <<>> => image_embeddings[i] = None
                    /\ image_embeddings[i] # None =>
                          calls[k].rows[i].image_embedding = image_embeddings[i].val
                    /\ info_embeddings[i] # None =>
                          calls[k].rows[i].info_embedding = info_embeddings[i].val

C16_Witness ==
    /\ pc = "done"
    /\ Cardinality(UpsertCalls) = 1
    /\ Len(products) = 2
    /\ products[1].image_url # <<>>
    /\ image_embeddings[1] = None
    /\ info_embeddings[1] # None
    /\ info_embeddings[2] = None
    /\ Len(calls[2].rows) = 2

====
